---- MODULE Spec2Model ----
(***************************************************************************)
(* Vault Shop (src/WEB/app.py): the order ledger, the payment notifier     *)
(* (/ipn), the web order routes and the admin console, as a state machine. *)
(*                                                                         *)
(* One action is one request handled to completion.  What the handler      *)
(* cannot control is an input of the action: the random part of a new      *)
(* order id, whether storage raises (dbFail), what the payment processor   *)
(* answers, whether the chat platform accepts a message.  The middleware   *)
(* in front of the handlers (rate limiter, CSRF check, page cache) is not  *)
(* modelled: every request of the model is one that reached its handler.   *)
(* Requests are well-formed for their route: JSON objects, integer product *)
(* ids; the signature header is whatever the sender chose to put there.    *)
(***************************************************************************)
EXTENDS Integers, Sequences, FiniteSets, TLC

VARIABLES
    products,          \* the products table: rows [id, price]
    next_product_id,   \* the serial the next INSERT INTO products takes
    orders,            \* the orders table: rows in insertion order
    invoices,          \* the invoice calls made to the payment processor
    outbox,            \* the messages the /ipn handler handed to the chat platform
    authed,            \* the clients that have submitted the admin password
    now,               \* CURRENT_TIMESTAMP; one tick per request
    req,               \* the request handled last
    env,               \* what storage and the processor did during it
    resp,              \* the response to it
    checked_out,       \* connections taken from db_pool and not put back
    user_data,         \* the dispatcher's context.user_data, one dict per user
    chosen,            \* history: the delivery choice each buyer made last
    operator           \* the messages handed to the platform for ADMIN_CHAT_ID

\* the state of the delivery conversation
delivery_vars == <<user_data, chosen, operator>>

vars == <<products, next_product_id, orders, invoices, outbox, authed,
          now, req, env, resp, checked_out, user_data, chosen, operator>>

(***************************************************************************)
(* Bounds                                                                  *)
(***************************************************************************)
\* requests handled in one run (also the range of CURRENT_TIMESTAMP)
MaxTime == 3
\* largest serial id the products table hands out
MaxProductId == 2

(***************************************************************************)
(* Values                                                                  *)
(***************************************************************************)
\* SQL NULL / Python None where a string is expected
NULL == "NULL"

\* chat-platform user ids (as str(user_id)), browser clients, pay currencies
Users == {"u1", "u2"}
Clients == {"c1", "c2"}
Coins == {"BTC"}

\* product prices, in cents
Prices == {999, 1999}

\* product ids a request can name; an id not yet handed out, or deleted,
\* matches no product
ProductIdInputs == 1..MaxProductId

\* psycopg2.pool.SimpleConnectionPool(1, 10, DATABASE_URL)
maxconn == 10

\* the environment's secrets
NOWPAYMENTS_IPN_SECRET == "ipn-secret"
ADMIN_PASSWORD == "admin123"
IpnKeys == {NOWPAYMENTS_IPN_SECRET, "other-key"}
Passwords == {ADMIN_PASSWORD, "guess"}

\* what secrets.choice can draw for the six characters of an order id
RandomParts == {"A1B2C3", "Z9Y8X7"}

\* datetime.now().strftime('%d%m%y'); a run stays within one day
date_part == "041126"

\* Format: prefix - 6 random alphanum - ddmmyy
generate_order_id(prefix, random_part) == <<prefix, random_part, date_part>>

OrderIds == {generate_order_id(p, r) : p \in {"B", "W"}, r \in RandomParts}

(***************************************************************************)
(* Storage: the products and orders tables                                 *)
(***************************************************************************)
\* INSERT INTO orders (...) fills the named columns; order_status and paid_at
\* take the table's defaults, user_identifier is NULL when not given.
NewOrderRow(product_id, total_amount, user_identifier, order_id, payment_id) ==
    [product_id |-> product_id, total_amount |-> total_amount,
     user_identifier |-> user_identifier, order_id |-> order_id,
     payment_id |-> payment_id, order_status |-> "pending", paid_at |-> 0]

\* The INSERT itself: the row is added whether or not the id is already in use.
InsertOrder_NotCommitted(rows, row) == rows

InsertOrder(rows, row) == Append(rows, row)

\* SELECT price FROM products WHERE id = %s : the result rows
SelectPrice_AnyProduct(prods, product_id) == {<<p.price>> : p \in prods}

SelectPrice(prods, product_id) ==
    {<<p.price>> : p \in {q \in prods : q.id = product_id}}

\* cur.fetchone(): one of the result rows, or None (<<>>) when there is none
fetchone(result) == IF result = {} THEN {<<>>} ELSE result

\* the rows an UPDATE orders ... WHERE order_id = %s AND order_status = 'pending' hits
CancelMatches_AnyStatus(rows, order_id) ==
    {i \in 1..Len(rows) : rows[i].order_id = order_id}

CancelMatches(rows, order_id) ==
    {i \in 1..Len(rows) : rows[i].order_id = order_id
                          /\ rows[i].order_status = "pending"}

\* UPDATE orders SET order_status = 'cancelled' WHERE order_id = %s AND order_status = 'pending'
UpdateCancelled(rows, order_id) ==
    [i \in 1..Len(rows) |->
        IF i \in CancelMatches(rows, order_id)
        THEN [rows[i] EXCEPT !.order_status = "cancelled"]
        ELSE rows[i]]

\* UPDATE orders SET order_status = 'paid', paid_at = CURRENT_TIMESTAMP WHERE order_id = %s
UpdatePaid_ResetsAmount(rows, order_id, timestamp) ==
    [i \in 1..Len(rows) |->
        IF rows[i].order_id = order_id
        THEN [rows[i] EXCEPT !.order_status = "paid", !.paid_at = timestamp,
                             !.total_amount = 0]
        ELSE rows[i]]

UpdatePaid_StampOnly(rows, order_id, timestamp) ==
    [i \in 1..Len(rows) |->
        IF rows[i].order_id = order_id
        THEN [rows[i] EXCEPT !.paid_at = timestamp]
        ELSE rows[i]]

UpdatePaid(rows, order_id, timestamp) ==
    [i \in 1..Len(rows) |->
        IF rows[i].order_id = order_id
        THEN [rows[i] EXCEPT !.order_status = "paid", !.paid_at = timestamp]
        ELSE rows[i]]

\* SELECT user_identifier FROM orders WHERE order_id = %s : the result rows
SelectUserIdentifier_AnyOrder(rows, order_id) ==
    {<<rows[i].user_identifier>> : i \in 1..Len(rows)}

SelectUserIdentifier(rows, order_id) ==
    {<<rows[i].user_identifier>> :
        i \in {j \in 1..Len(rows) : rows[j].order_id = order_id}}

\* INSERT INTO products (name, price, description, image_url): serial id
InsertProduct(prods, id, price) == prods \cup {[id |-> id, price |-> price]}

\* DELETE FROM products WHERE id = %s
DeleteProduct(prods, product_id) == {p \in prods : p.id # product_id}

(***************************************************************************)
(* Requests and responses                                                  *)
(***************************************************************************)
NoOrderId == <<"", "", "">>

Response(status, body) ==
    [status |-> status, body |-> body, order_id |-> NoOrderId, payment_url |-> ""]

\* jsonify({'order_id': order_id, 'payment_url': payment_url})
OrderResponse(order_id, payment_url) ==
    [status |-> 200, body |-> "order", order_id |-> order_id,
     payment_url |-> payment_url]

\* an exception no handler catches: Flask answers 500
UnhandledException == Response(500, "Internal Server Error")

(***************************************************************************)
(* Invoice bridge                                                          *)
(***************************************************************************)
\* What requests.post(url, ...) can come back with: no connection at all, or
\* a status code with a body that is or is not JSON; a JSON body is the set of
\* its keys.
NoResponse == [connected |-> FALSE, status_code |-> 0, is_json |-> FALSE, keys |-> {}]

ProcessorResponses ==
    {NoResponse}
    \cup [connected : {TRUE}, status_code : {200, 500}, is_json : {TRUE},
          keys : {{"invoice_url"}, {"message"}}]
    \cup [connected : {TRUE}, status_code : {200}, is_json : {TRUE}, keys : {{}}]
    \cup [connected : {TRUE}, status_code : {500}, is_json : {FALSE}, keys : {{}}]

\* requests.post raises without a connection, response.json() on a body that
\* is not JSON
create_invoice_raises(response) == ~response.connected \/ ~response.is_json

\* return response.json(): the status code is logged and not looked at
create_invoice(response) == response.keys

\* invoice.get('invoice_url')
InvoiceUrl(invoice) == IF "invoice_url" \in invoice THEN "invoice-url" ELSE NULL

\* the body of the call made to the processor
InvoiceCall(price, order_id, coin) ==
    [price_amount |-> price, order_id |-> order_id, pay_currency |-> coin]

(***************************************************************************)
(* IPN signature                                                           *)
(***************************************************************************)
\* a JSON body of an IPN: the keys it has and their values
EmptyBody == [keys |-> {}, payment_status |-> NULL, order_id |-> NoOrderId]

IpnBodies ==
    [keys : {{"payment_status", "order_id"}}, payment_status : {"finished", "waiting"},
     order_id : OrderIds]
    \cup [keys : {{"payment_status"}}, payment_status : {"finished"},
          order_id : {NoOrderId}]
    \cup {EmptyBody}

\* hmac.new(key, body, hashlib.sha512).hexdigest(): a tag only the same key
\* and the same body produce
hmac_sha512(key, body) ==
    [present |-> TRUE, ascii |-> TRUE, key |-> key, body |-> body]

\* request.headers.get('x-nowpayments-sig') is None
NoSignature == [present |-> FALSE, ascii |-> TRUE, key |-> NULL, body |-> EmptyBody]

\* a header value that is no digest at all: it holds a non-ASCII character
NonAsciiSignature ==
    [present |-> TRUE, ascii |-> FALSE, key |-> NULL, body |-> EmptyBody]

\* the signature headers a sender can put on a body: none, a string that is
\* no hex digest, the tag of the body under the secret or under another key,
\* or the secret's tag of another body
Signatures(body) ==
    {NoSignature, NonAsciiSignature, hmac_sha512(NOWPAYMENTS_IPN_SECRET, EmptyBody)}
    \cup {hmac_sha512(k, body) : k \in IpnKeys}

\* hmac.compare_digest(signature, expected_sig) raises TypeError when
\* signature is None or a str with a non-ASCII character
validate_ipn_raises(signature, body) == ~signature.present \/ ~signature.ascii

validate_ipn(signature, body) ==
    signature = hmac_sha512(NOWPAYMENTS_IPN_SECRET, body)

\* data.get('payment_status')
GetPaymentStatus_AnyStatus(data) ==
    IF "payment_status" \in data.keys THEN "finished" ELSE NULL

GetPaymentStatus(data) ==
    IF "payment_status" \in data.keys THEN data.payment_status ELSE NULL

(***************************************************************************)
(* Chat platform                                                           *)
(***************************************************************************)
\* bot.send_message(chat_id=..., text="Payment received! Choose delivery
\* method:", reply_markup=<delivery_telegram_<id> / delivery_email_<id>>):
\* the attempt, and whether the platform took it
DeliveryChoice(chat_id, order_id, accepted) ==
    [chat_id |-> chat_id, text |-> "Payment received! Choose delivery method:",
     order_id |-> order_id, accepted |-> accepted]

\* the platform refuses a message without a chat id, whatever else happens
SendAccepted(chat_id, sendOk) == chat_id # NULL /\ sendOk

(***************************************************************************)
(* The environment of one request                                          *)
(***************************************************************************)
\* dbFail: storage raised (no connection left in the pool, connection lost,
\* statement refused) before the request's commit; called/response: the
\* processor was called, and what it answered.  A handler draws these where
\* its code reaches storage or the processor, not before.
Env(dbFail, called, response) ==
    [dbFail |-> dbFail, called |-> called, response |-> response]

NoEnv == Env(FALSE, FALSE, NoResponse)

\* db_pool.getconn() hands out a connection while fewer than maxconn are out,
\* and raises PoolError otherwise
PoolHasRoom == checked_out < maxconn

\* conn = db_pool.getconn() ... db_pool.putconn(conn): the handler got a
\* connection and put it back
ConnReturned == PoolHasRoom /\ UNCHANGED checked_out

\* the handler got a connection and left (by an exception) without putconn
ConnLeaked(n) == n + 1

ConnNotReturned == PoolHasRoom /\ checked_out' = ConnLeaked(checked_out)

\* storage raised: getconn on an exhausted pool, or a statement on a
\* connection that no handler then puts back (none has a finally)
StorageRaises ==
    /\ env' = Env(TRUE, FALSE, NoResponse)
    /\ checked_out' = IF PoolHasRoom THEN ConnLeaked(checked_out) ELSE checked_out

(***************************************************************************)
(* Delivery conversation state                                             *)
(***************************************************************************)
\* context.user_data of a user: the keys 'method' and 'order_id', None (NULL,
\* NoOrderId) while not set
Delivery(method, order_id) == [method |-> method, order_id |-> order_id]

NoDelivery == Delivery(NULL, NoOrderId)

(***************************************************************************)
(* Initial state: a catalog with one product, no orders, nobody logged in  *)
(***************************************************************************)
Init ==
    /\ products = {[id |-> 1, price |-> 999]}
    /\ next_product_id = 2
    /\ orders = <<>>
    /\ invoices = <<>>
    /\ outbox = <<>>
    /\ authed = {}
    /\ now = 0
    /\ req = [handler |-> "none"]
    /\ env = NoEnv
    /\ resp = Response(0, "")
    /\ checked_out = 0
    /\ user_data = [u \in Users |-> NoDelivery]
    /\ chosen = [u \in Users |-> NoDelivery]
    /\ operator = <<>>

\* every request takes one tick of the clock
Tick == now < MaxTime /\ now' = now + 1

(***************************************************************************)
(* POST /create-order                                                      *)
(***************************************************************************)
\* request.get_json(): {} or {'product_id': n}
CreateOrderBodies ==
    [keys : {{}}, product_id : {0}]
    \cup [keys : {{"product_id"}}, product_id : ProductIdInputs]

create_order(data, random_part) ==
    LET order_id == generate_order_id("W", random_part)
        product_id == data.product_id
    IN
    /\ Tick
    /\ UNCHANGED delivery_vars
    /\ req' = [handler |-> "create_order", data |-> data]
    /\ UNCHANGED <<products, next_product_id, outbox, authed>>
    /\ IF data.keys = {} \/ "product_id" \notin data.keys
       THEN /\ resp' = Response(400, "Missing product_id")
            /\ env' = NoEnv
            /\ UNCHANGED <<orders, invoices, checked_out>>
       ELSE
       \/ \* storage raises: except Exception
          /\ StorageRaises
          /\ resp' = Response(500, "Internal server error")
          /\ UNCHANGED <<orders, invoices>>
       \/ /\ ConnReturned
          /\ \E product \in fetchone(SelectPrice(products, product_id)) :
            IF product = <<>>
            THEN /\ resp' = Response(404, "Product not found")
                 /\ env' = NoEnv
                 /\ UNCHANGED <<orders, invoices>>
            ELSE \E response \in ProcessorResponses :
                 LET invoice == create_invoice(response) IN
                 /\ orders' = InsertOrder(orders,
                                 NewOrderRow(product_id, product[1], NULL, order_id, ""))
                 /\ invoices' = Append(invoices,
                                 InvoiceCall(product[1], order_id, "BTC"))
                 /\ env' = Env(FALSE, TRUE, response)
                 /\ resp' = IF create_invoice_raises(response)
                            THEN Response(500, "Internal server error")
                            ELSE IF invoice = {} \/ "invoice_url" \notin invoice
                            THEN Response(500, "Failed to create invoice")
                            ELSE OrderResponse(order_id, InvoiceUrl(invoice))

(***************************************************************************)
(* Bot: confirm_<product_id>_<coin>                                        *)
(***************************************************************************)
\* what the buyer's chat shows after the update; the webhook itself answers OK
\* whether or not the handler raised
BotReply(text, order_id, payment_url) ==
    [status |-> 200, body |-> text, order_id |-> order_id,
     payment_url |-> payment_url]

confirm_purchase(user_id, product_id, coin, random_part) ==
    LET order_id == generate_order_id("B", random_part) IN
    /\ Tick
    /\ UNCHANGED delivery_vars
    /\ req' = [handler |-> "confirm_purchase", user_id |-> user_id,
               product_id |-> product_id]
    /\ UNCHANGED <<products, next_product_id, outbox, authed>>
    /\ \/ /\ StorageRaises
          /\ resp' = BotReply("handler raised", NoOrderId, "")
          /\ UNCHANGED <<orders, invoices>>
       \/ \E product \in fetchone(SelectPrice(products, product_id)) :
            IF product = <<>>
            THEN \* cur.fetchone()[0] on None: TypeError, before putconn
                 /\ ConnNotReturned
                 /\ resp' = BotReply("handler raised", NoOrderId, "")
                 /\ env' = NoEnv
                 /\ UNCHANGED <<orders, invoices>>
            ELSE \E response \in ProcessorResponses :
                 /\ ConnReturned
                 /\ orders' = InsertOrder(orders,
                                 NewOrderRow(product_id, product[1], user_id, order_id, ""))
                 /\ invoices' = Append(invoices,
                                 InvoiceCall(product[1], order_id, coin))
                 /\ env' = Env(FALSE, TRUE, response)
                 /\ resp' = IF create_invoice_raises(response)
                            THEN BotReply("handler raised", NoOrderId, "")
                            ELSE BotReply("Order created", order_id,
                                          InvoiceUrl(create_invoice(response)))

(***************************************************************************)
(* POST /cancel-order/<order_id>                                           *)
(***************************************************************************)
cancel_order(order_id) ==
    /\ Tick
    /\ UNCHANGED delivery_vars
    /\ req' = [handler |-> "cancel_order", order_id |-> order_id]
    /\ UNCHANGED <<products, next_product_id, invoices, outbox, authed>>
    /\ \/ /\ StorageRaises
          /\ resp' = Response(500, "Internal server error")
          /\ UNCHANGED orders
       \/ /\ env' = NoEnv
          /\ ConnReturned
          /\ IF Cardinality(CancelMatches(orders, order_id)) > 0
             THEN /\ orders' = UpdateCancelled(orders, order_id)
                  /\ resp' = Response(200, "success")
             ELSE /\ resp' = Response(404, "Order not found or not cancellable")
                  /\ UNCHANGED orders

(***************************************************************************)
(* POST /ipn                                                               *)
(***************************************************************************)
ipn(signature, data) ==
    /\ Tick
    /\ UNCHANGED delivery_vars
    /\ req' = [handler |-> "ipn", signature |-> signature, data |-> data]
    /\ UNCHANGED <<products, next_product_id, invoices, authed>>
    /\ IF validate_ipn_raises(signature, data)
       THEN /\ resp' = UnhandledException
            /\ env' = NoEnv
            /\ UNCHANGED <<orders, outbox, checked_out>>
       ELSE IF ~validate_ipn(signature, data)
       THEN /\ resp' = Response(400, "Invalid signature")
            /\ env' = NoEnv
            /\ UNCHANGED <<orders, outbox, checked_out>>
       ELSE IF GetPaymentStatus(data) # "finished"
       THEN /\ resp' = Response(200, "OK")
            /\ env' = NoEnv
            /\ UNCHANGED <<orders, outbox, checked_out>>
       ELSE IF "order_id" \notin data.keys
       THEN \* data['order_id'] raises KeyError
            /\ resp' = UnhandledException
            /\ env' = NoEnv
            /\ UNCHANGED <<orders, outbox, checked_out>>
       ELSE
       \/ /\ StorageRaises
          /\ resp' = UnhandledException
          /\ UNCHANGED <<orders, outbox>>
       \/ /\ env' = NoEnv
          /\ ConnReturned
          /\ orders' = UpdatePaid(orders, data.order_id, now')
          /\ \E user_id \in fetchone(SelectUserIdentifier(orders', data.order_id)) :
               IF user_id # <<>>
               THEN \E sendOk \in BOOLEAN :
                    /\ outbox' = Append(outbox,
                          DeliveryChoice(user_id[1], data.order_id,
                                         SendAccepted(user_id[1], sendOk)))
                    /\ resp' = IF SendAccepted(user_id[1], sendOk)
                               THEN Response(200, "OK")
                               ELSE UnhandledException
               ELSE /\ resp' = Response(200, "OK")
                    /\ UNCHANGED outbox

(***************************************************************************)
(* Admin console                                                           *)
(***************************************************************************)
\* POST /admin with a password.  The handler keeps nothing about the client;
\* authed is the history of who has submitted the right password.
admin(client, password) ==
    /\ Tick
    /\ UNCHANGED delivery_vars
    /\ req' = [handler |-> "admin", client |-> client]
    /\ env' = NoEnv
    /\ UNCHANGED <<products, next_product_id, orders, invoices, outbox, checked_out>>
    /\ IF password = ADMIN_PASSWORD
       THEN /\ authed' = authed \cup {client}
            /\ resp' = Response(302, "admin_panel")
       ELSE /\ resp' = Response(200, "Invalid password")
            /\ UNCHANGED authed

\* GET /admin/panel
admin_panel(client) ==
    /\ Tick
    /\ UNCHANGED delivery_vars
    /\ req' = [handler |-> "admin_panel", client |-> client]
    /\ UNCHANGED <<products, next_product_id, orders, invoices, outbox, authed>>
    /\ \/ /\ StorageRaises
          /\ resp' = Response(200, "Error loading panel")
       \/ /\ env' = NoEnv
          /\ ConnReturned
          /\ resp' = Response(200, "products listed")

\* the add-product form as submitted
ProductForms == [name : {"", "Widget"}, price : {-1, 0} \cup Prices]

\* form.validate_on_submit(): DataRequired on name and price (a price of 0 is
\* no data), NumberRange(min=0) on price
validate_on_submit(form) == form.name # "" /\ form.price # 0 /\ form.price >= 0

\* POST /admin/add
add_product(client, form) ==
    /\ Tick
    /\ UNCHANGED delivery_vars
    /\ next_product_id <= MaxProductId
    /\ req' = [handler |-> "add_product", client |-> client]
    /\ UNCHANGED <<orders, invoices, outbox, authed>>
    /\ IF ~validate_on_submit(form)
       THEN /\ resp' = Response(200, "add_product form")
            /\ env' = NoEnv
            /\ UNCHANGED <<products, next_product_id, checked_out>>
       ELSE
       \/ /\ StorageRaises
          /\ resp' = Response(200, "Error adding product")
          /\ UNCHANGED <<products, next_product_id>>
       \/ /\ env' = NoEnv
          /\ ConnReturned
          /\ products' = InsertProduct(products, next_product_id, form.price)
          /\ next_product_id' = next_product_id + 1
          /\ resp' = Response(302, "Product added successfully")

\* GET /admin/delete/<int:product_id>
delete_product(client, product_id) ==
    /\ Tick
    /\ UNCHANGED delivery_vars
    /\ req' = [handler |-> "delete_product", client |-> client]
    /\ UNCHANGED <<next_product_id, orders, invoices, outbox, authed>>
    /\ \/ /\ StorageRaises
          /\ resp' = Response(302, "Error deleting product")
          /\ UNCHANGED products
       \/ /\ env' = NoEnv
          /\ ConnReturned
          /\ products' = DeleteProduct(products, product_id)
          /\ resp' = Response(302, "Product deleted")

(***************************************************************************)
(* GET /order-status/<order_id>                                            *)
(***************************************************************************)
\* SELECT order_status FROM orders WHERE order_id = %s : the result rows
SelectStatus(rows, order_id) ==
    {<<rows[i].order_status>> :
        i \in {j \in 1..Len(rows) : rows[j].order_id = order_id}}

\* what the handler can answer when storage does not raise: the status of the
\* row fetchone() returns, or 404 when there is none
StatusReports(rows, order_id) ==
    {IF status = <<>> THEN Response(404, "not found") ELSE Response(200, status[1]) :
        status \in fetchone(SelectStatus(rows, order_id))}

order_status(order_id) ==
    /\ Tick
    /\ UNCHANGED delivery_vars
    /\ req' = [handler |-> "order_status", order_id |-> order_id]
    /\ UNCHANGED <<products, next_product_id, orders, invoices, outbox, authed>>
    /\ \/ /\ StorageRaises
          /\ resp' = Response(500, "error")
       \/ /\ env' = NoEnv
          /\ ConnReturned
          /\ \E report \in StatusReports(orders, order_id) : resp' = report

(***************************************************************************)
(* Delivery: delivery_<method>_<order_id>, the buyer's text, /submit-delivery *)
(***************************************************************************)
\* everything but the delivery conversation
shop_vars == <<products, next_product_id, orders, invoices, outbox, authed,
               checked_out>>

Methods == {"telegram", "email"}

\* callback data matching '^delivery_(telegram|email)_', as data.split('_')
\* gives it: an order id holds no '_', so it is the one part after the method,
\* and '_'.join of that part is the part ("" when the data ends after the '_')
DeliveryCallbacks ==
    {<<"delivery", method, order_id>> :
        method \in Methods,
        order_id \in {generate_order_id("B", r) : r \in RandomParts} \cup {NoOrderId}}

\* update.message.text / data['details']
Details == {"@sam", "sam@example.org"}

\* context.user_data['method'] = method; context.user_data['order_id'] = order_id
\* on the dict the dispatcher keeps for the user of the update
SetUserData_SharedSlot(data, user, method, order_id) ==
    [u \in DOMAIN data |-> Delivery(method, order_id)]

SetUserData(data, user, method, order_id) ==
    [data EXCEPT ![user] = Delivery(method, order_id)]

\* if method and order_id: None and '' are falsy
HasDelivery_Always(method, order_id) == TRUE

HasDelivery(method, order_id) == method # NULL /\ order_id # NoOrderId

\* bot.send_message(chat_id=ADMIN_CHAT_ID,
\*     text=f"New Order: {order_id}\nDelivery: {method} ({details})")
OperatorMessage(order_id, method, details, accepted) ==
    [order_id |-> order_id, method |-> method, details |-> details,
     accepted |-> accepted]

\* the handler returned without writing to the buyer's chat
NoReply == BotReply("", NoOrderId, "")

choose_delivery(user, data) ==
    LET method == data[2]
        order_id == data[3]
    IN
    /\ Tick
    /\ UNCHANGED <<shop_vars, operator>>
    /\ req' = [handler |-> "choose_delivery", user |-> user, data |-> data]
    /\ env' = NoEnv
    /\ user_data' = SetUserData(user_data, user, method, order_id)
    /\ chosen' = [chosen EXCEPT ![user] = Delivery(data[2], data[3])]
    /\ \E editOk \in BOOLEAN :
         resp' = IF editOk THEN BotReply("Enter your details:", order_id, "")
                 ELSE BotReply("handler raised", NoOrderId, "")

receive_details(user, details) ==
    LET method == user_data[user].method
        order_id == user_data[user].order_id
    IN
    /\ Tick
    /\ UNCHANGED <<shop_vars, user_data, chosen>>
    /\ req' = [handler |-> "receive_details", user |-> user, details |-> details]
    /\ env' = NoEnv
    /\ IF HasDelivery(method, order_id)
       THEN \E sendOk \in BOOLEAN :
            /\ operator' = Append(operator,
                              OperatorMessage(order_id, method, details, sendOk))
            /\ resp' = IF sendOk THEN BotReply("Details submitted!", order_id, "")
                       ELSE BotReply("handler raised", NoOrderId, "")
       ELSE /\ resp' = NoReply
            /\ UNCHANGED operator

\* request.get_json(): {} or {'order_id', 'method', 'details'}
SubmitDeliveryBodies ==
    [keys : {{}}, order_id : {NoOrderId}, method : {NULL}, details : {""}]
    \cup [keys : {{"order_id", "method", "details"}},
          order_id : {generate_order_id("W", r) : r \in RandomParts},
          method : Methods, details : Details]

\* POST /submit-delivery
submit_delivery(data) ==
    /\ Tick
    /\ UNCHANGED <<shop_vars, user_data, chosen>>
    /\ req' = [handler |-> "submit_delivery", data |-> data]
    /\ env' = NoEnv
    /\ IF data.keys = {}
       THEN \* data['order_id']: KeyError, except Exception
            /\ resp' = Response(500, "Internal server error")
            /\ UNCHANGED operator
       ELSE \E sendOk \in BOOLEAN :
            /\ operator' = Append(operator,
                  OperatorMessage(data.order_id, data.method, data.details, sendOk))
            /\ resp' = IF sendOk THEN Response(200, "success")
                       ELSE Response(500, "Internal server error")

(***************************************************************************)
(* Specification                                                           *)
(***************************************************************************)
Next ==
    \/ \E data \in CreateOrderBodies, r \in RandomParts : create_order(data, r)
    \/ \E u \in Users, p \in ProductIdInputs, coin \in Coins, r \in RandomParts :
          confirm_purchase(u, p, coin, r)
    \/ \E o \in OrderIds : cancel_order(o)
    \/ \E o \in OrderIds : order_status(o)
    \/ \E data \in IpnBodies : \E signature \in Signatures(data) :
          ipn(signature, data)
    \/ \E c \in Clients, pw \in Passwords : admin(c, pw)
    \/ \E c \in Clients : admin_panel(c)
    \/ \E c \in Clients, form \in ProductForms : add_product(c, form)
    \/ \E c \in Clients, p \in ProductIdInputs : delete_product(c, p)

Spec == Init /\ [][Next]_vars

\* the delivery conversation on its own: the bot's two delivery handlers and
\* the web endpoint that writes to the same operator chat
NextDelivery ==
    \/ \E u \in Users, data \in DeliveryCallbacks : choose_delivery(u, data)
    \/ \E u \in Users, details \in Details : receive_details(u, details)
    \/ \E data \in SubmitDeliveryBodies : submit_delivery(data)

SpecDelivery == Init /\ [][NextDelivery]_vars

(***************************************************************************)
(* Properties                                                              *)
(***************************************************************************)
\* the rows of the orders table with a given order id
RowsOf(rows, order_id) == {i \in 1..Len(rows) : rows[i].order_id = order_id}

PendingRowsOf(rows, order_id) ==
    {i \in RowsOf(rows, order_id) : rows[i].order_status = "pending"}

\* the step handles an IPN that carries the secret's tag of its own body, says
\* finished and names order o, and storage does not raise
FinishedIpnStep(o) ==
    /\ req'.handler = "ipn"
    /\ req'.signature = hmac_sha512(NOWPAYMENTS_IPN_SECRET, req'.data)
    /\ req'.data.keys = {"payment_status", "order_id"}
    /\ req'.data.payment_status = "finished"
    /\ req'.data.order_id = o
    /\ ~env'.dbFail

\* C1: a valid finished IPN for an existing pending order moves exactly one
\* order from pending to paid and stamps its paid_at, changes the status of no
\* other order, and hands the chat platform exactly one delivery-choice
\* message when the order has a buyer identifier.
C1_FinishedIpnPaysExactlyOneOrder ==
    [][\A o \in OrderIds :
        (FinishedIpnStep(o) /\ PendingRowsOf(orders, o) # {}) =>
            /\ Len(orders') = Len(orders)
            /\ Cardinality({i \in 1..Len(orders) :
                    /\ orders[i].order_status = "pending"
                    /\ orders'[i].order_status = "paid"
                    /\ orders'[i].paid_at = now'}) = 1
            /\ \A i \in 1..Len(orders) :
                    orders'[i].order_status # orders[i].order_status =>
                        orders[i].order_id = o /\ orders[i].order_status = "pending"
            /\ (\E i \in PendingRowsOf(orders, o) : orders[i].user_identifier # NULL)
                    => Len(outbox') = Len(outbox) + 1
      ]_vars

\* C2: a valid finished IPN for an order that an earlier one has already
\* marked paid changes no order row (status and paid_at stay) and sends no
\* further delivery-choice message.
C2_ReplayedIpnChangesNothing ==
    [][\A o \in OrderIds :
        (/\ FinishedIpnStep(o)
         /\ RowsOf(orders, o) # {}
         /\ \A i \in RowsOf(orders, o) : orders[i].order_status = "paid") =>
            orders' = orders /\ outbox' = outbox
      ]_vars

\* C3: every change of an order's status is pending -> paid or
\* pending -> cancelled.
C3_OnlyPendingOrdersChangeStatus ==
    [][\A i \in 1..Len(orders) :
        orders'[i].order_status # orders[i].order_status =>
            /\ orders[i].order_status = "pending"
            /\ orders'[i].order_status \in {"paid", "cancelled"}
      ]_vars

\* C4: a cancel answers 200 only when a row with that id was pending, and then
\* exactly those rows become cancelled; when no row with that id is pending
\* (unknown id, paid, already cancelled) it answers 404 (storage not raising)
\* and no row changes; after a successful cancel no row with that id is
\* pending, so the next cancel of it fails.
C4_CancelOnlyPending ==
    [][req'.handler = "cancel_order" =>
        LET o == req'.order_id
            pend == {i \in 1..Len(orders) :
                        orders[i].order_id = o /\ orders[i].order_status = "pending"}
        IN
        /\ Len(orders') = Len(orders)
        /\ resp'.status = 200 =>
              /\ pend # {}
              /\ \A i \in 1..Len(orders) :
                    orders'[i] = IF i \in pend
                                 THEN [orders[i] EXCEPT !.order_status = "cancelled"]
                                 ELSE orders[i]
              /\ \A i \in 1..Len(orders') :
                    orders'[i].order_id = o => orders'[i].order_status # "pending"
        /\ resp'.status # 200 => orders' = orders
        /\ ~env'.dbFail => (resp'.status = IF pend # {} THEN 200 ELSE 404)
      ]_vars

\* C4 witness: a cancel of an already cancelled order has just been refused
C4_Witness ==
    /\ req.handler = "cancel_order"
    /\ resp.status = 404
    /\ \E i \in 1..Len(orders) :
          orders[i].order_id = req.order_id /\ orders[i].order_status = "cancelled"

\* C5: an IPN whose signature header is not the HMAC of its body under the
\* secret (a missing header included) changes no order row and sends nothing;
\* when a header is there, the answer is 400.
C5_BadSignatureChangesNothing ==
    [][(/\ req'.handler = "ipn"
        /\ req'.signature # hmac_sha512(NOWPAYMENTS_IPN_SECRET, req'.data)) =>
            /\ orders' = orders
            /\ outbox' = outbox
            /\ req'.signature.present => resp'.status = 400
      ]_vars

\* C6: a valid finished IPN for an order without a buyer identifier (a web
\* order) attempts no send and is answered 200.
C6_NoSendForWebOrder ==
    [][\A o \in OrderIds :
        (/\ FinishedIpnStep(o)
         /\ RowsOf(orders, o) # {}
         /\ \A i \in RowsOf(orders, o) : orders[i].user_identifier = NULL) =>
            outbox' = outbox /\ resp'.status = 200
      ]_vars

\* C7: the catalog changes, and is listed in the panel, only on a request of
\* a client that has submitted the admin password before.
C7_CatalogOnlyAfterPassword ==
    [][(\/ products' # products
        \/ (req'.handler = "admin_panel" /\ resp'.body = "products listed")) =>
            req'.client \in authed
      ]_vars

\* C8: a new order row's total amount is the price of its product at that
\* moment, and no request changes the total amount of an existing row or
\* removes a row.
C8_TotalAmountFixedAtCreation ==
    [][/\ Len(orders') >= Len(orders)
       /\ Len(orders') <= Len(orders) + 1
       /\ \A i \in 1..Len(orders) :
             orders'[i].total_amount = orders[i].total_amount
       /\ Len(orders') = Len(orders) + 1 =>
             \E p \in products :
                /\ p.id = orders'[Len(orders')].product_id
                /\ p.price = orders'[Len(orders')].total_amount
      ]_vars

\* C8 witness: an order was paid after its product had been deleted, and still
\* carries the price the product had
C8_Witness ==
    \E i \in 1..Len(orders) :
        /\ orders[i].order_status = "paid"
        /\ orders[i].total_amount = 999
        /\ \A p \in products : p.id # orders[i].product_id

\* C9: /create-order without a product_id answers 400, with a product_id that
\* matches no product 404 (storage not raising); either way no order row is
\* written and no invoice is requested.
C9_UnknownProductWritesNothing ==
    [][req'.handler = "create_order" =>
        LET data == req'.data IN
        /\ "product_id" \notin data.keys =>
              resp'.status = 400 /\ orders' = orders /\ invoices' = invoices
        /\ ("product_id" \in data.keys
              /\ \A p \in products : p.id # data.product_id) =>
              /\ orders' = orders
              /\ invoices' = invoices
              /\ ~env'.dbFail => resp'.status = 404
      ]_vars

\* C9 witness: a request naming a deleted product has just been answered 404
\* while an order of that product exists
C9_Witness ==
    /\ req.handler = "create_order"
    /\ "product_id" \in req.data.keys
    /\ resp.status = 404
    /\ \E i \in 1..Len(orders) : orders[i].product_id = req.data.product_id

\* the processor's invoice call failed: no answer, a status that is not 2xx,
\* or a body without invoice_url
InvoiceCallFailed(response) ==
    \/ ~response.connected
    \/ response.status_code < 200
    \/ response.status_code > 299
    \/ ~response.is_json
    \/ "invoice_url" \notin response.keys

\* C10: when the invoice call failed, /create-order answers 500 with an error
\* body, never an order id and payment URL.
C10_InvoiceFailureIsSurfaced ==
    (req.handler = "create_order" /\ env.called /\ InvoiceCallFailed(env.response)) =>
        /\ resp.status = 500
        /\ resp.body \in {"Failed to create invoice", "Internal server error"}
        /\ resp.order_id = NoOrderId

\* C11: delivery state is kept per buyer: when a buyer's text is relayed to the
\* operator, the order id and the method in the relayed message are the ones
\* that same buyer chose last, whatever other buyers chose in between.
C11_RelayedChoiceIsTheBuyersOwn ==
    [][(req'.handler = "receive_details" /\ operator' # operator) =>
          LET message == operator'[Len(operator')] IN
          /\ Len(operator') = Len(operator) + 1
          /\ message.order_id = chosen[req'.user].order_id
          /\ message.method = chosen[req'.user].method]_vars

\* two buyers hold different choices and the text of one of them was relayed
\* with that buyer's own choice
C11_Witness ==
    /\ req.handler = "receive_details"
    /\ chosen["u1"] # NoDelivery
    /\ chosen["u2"] # NoDelivery
    /\ chosen["u1"].order_id # chosen["u2"].order_id
    /\ chosen["u1"].method # chosen["u2"].method
    /\ Len(operator) = 1
    /\ operator[1].order_id = chosen[req.user].order_id
    /\ operator[1].method = chosen[req.user].method

\* the request handled last (step: the one being handled) is an IPN that
\* carries the secret's tag of its own body
ValidIpn(request) ==
    /\ request.handler = "ipn"
    /\ request.signature = hmac_sha512(NOWPAYMENTS_IPN_SECRET, request.data)

\* the body of the IPN says finished
SaysFinished(data) ==
    "payment_status" \in data.keys /\ data.payment_status = "finished"

\* C12: an IPN with a valid signature whose payment status is anything but
\* finished (or is absent) is answered 200 OK, changes no order (status and
\* paid-at included) and sends no notification.
C12_UnfinishedIpnChangesNothing ==
    [][(ValidIpn(req') /\ ~SaysFinished(req'.data)) =>
          /\ resp' = Response(200, "OK")
          /\ orders' = orders
          /\ outbox' = outbox]_vars

\* a validly signed IPN saying waiting named a bot order that is pending, and
\* the order is pending still
C12_Witness ==
    /\ ValidIpn(req)
    /\ req.data.keys = {"payment_status", "order_id"}
    /\ req.data.payment_status = "waiting"
    /\ resp = Response(200, "OK")
    /\ \E i \in 1..Len(orders) :
         /\ orders[i].order_id = req.data.order_id
         /\ orders[i].user_identifier # NULL
         /\ orders[i].order_status = "pending"
         /\ orders[i].paid_at = 0

\* C13: once the processor has created an invoice for an order, the order's
\* payment_id is populated; it is empty only for orders without an invoice.
\* Stated on the order the last request created: when its invoice call
\* succeeded, the stored row carries a non-empty payment_id.
C13_PaymentIdSetOnceInvoiced ==
    (/\ req.handler \in {"create_order", "confirm_purchase"}
     /\ env.called
     /\ ~InvoiceCallFailed(env.response))
    => orders[Len(orders)].payment_id # ""

\* /create-order answered with the order id and the payment URL
CreateOrderSucceeded == req.handler = "create_order" /\ resp.body = "order"

\* the step is a cancel request or an IPN for order o
CancelOrIpnFor(o) ==
    \/ req'.handler = "cancel_order" /\ req'.order_id = o
    \/ req'.handler = "ipn" /\ req'.data.order_id = o

\* C14: after a successful POST /create-order, /order-status/<id> reports
\* pending for the order, and goes on reporting pending until a cancel or an
\* IPN for it occurs; after a valid finished IPN for an existing order it
\* reports paid; for an id that was never created it answers 404.
C14_StatusFollowsLifecycle ==
    /\ [](/\ CreateOrderSucceeded =>
               StatusReports(orders, resp.order_id) = {Response(200, "pending")}
          /\ \A o \in OrderIds :
               /\ (/\ ValidIpn(req) /\ SaysFinished(req.data) /\ ~env.dbFail
                   /\ req.data.order_id = o /\ RowsOf(orders, o) # {})
                  => StatusReports(orders, o) = {Response(200, "paid")}
               /\ RowsOf(orders, o) = {}
                  => StatusReports(orders, o) = {Response(404, "not found")})
    /\ [][\A o \in OrderIds :
            (/\ StatusReports(orders, o) = {Response(200, "pending")}
             /\ ~CancelOrIpnFor(o))
            => StatusReports(orders', o) = {Response(200, "pending")}]_vars

\* C15: paid is stable: an order that has reached paid stays paid, whatever
\* request is handled next (cancel, IPN of any status or signature, order
\* creation, admin operation), and its row is never removed.
C15_PaidIsStable ==
    [][\A i \in 1..Len(orders) :
          orders[i].order_status = "paid" =>
             /\ i <= Len(orders')
             /\ orders'[i].order_id = orders[i].order_id
             /\ orders'[i].order_status = "paid"]_vars

\* a cancel request named an order that was paid before, and the order is paid
C15_Witness ==
    /\ req.handler = "cancel_order"
    /\ ~env.dbFail
    /\ \E i \in 1..Len(orders) :
         /\ orders[i].order_id = req.order_id
         /\ orders[i].order_status = "paid"
         /\ orders[i].paid_at < now

\* C16: every handler returns the connection it took from the pool on every
\* exit path, so whenever no request is being handled no connection is
\* checked out (and the pool of maxconn connections cannot run dry).
C16_NoConnectionLeftCheckedOut == checked_out = 0

\* C17: the delivery-choice notification for an order is sent only after the
\* order's paid status is stored: when the IPN handler hands a notification to
\* the chat platform, every order carrying the notified id is paid, and an
\* order that was notified and paid is paid after every later step.
C17_NotifiedOrdersArePaid ==
    [][/\ outbox' # outbox =>
            LET message == outbox'[Len(outbox')] IN
            /\ Len(outbox') = Len(outbox) + 1
            /\ RowsOf(orders', message.order_id) # {}
            /\ \A i \in RowsOf(orders', message.order_id) :
                  orders'[i].order_status = "paid"
       /\ \A k \in 1..Len(outbox) :
            \A i \in RowsOf(orders, outbox[k].order_id) :
               orders[i].order_status = "paid" =>
                  orders'[i].order_status = "paid"]_vars

\* the platform accepted a notification for a bot order, the order is paid,
\* and a request handled after the notification left it paid
C17_Witness ==
    /\ Len(outbox) = 1
    /\ outbox[1].accepted
    /\ req.handler # "ipn"
    /\ \E i \in 1..Len(orders) :
         /\ orders[i].order_id = outbox[1].order_id
         /\ orders[i].user_identifier = outbox[1].chat_id
         /\ orders[i].order_status = "paid"

\* C18: a validly signed finished IPN naming an order id that no stored order
\* carries creates no row, changes no order and sends no notification, and is
\* answered 200 OK (when storage does not raise).
C18_UnknownOrderIpnChangesNothing ==
    [][\A o \in OrderIds :
          (FinishedIpnStep(o) /\ RowsOf(orders, o) = {}) =>
             /\ orders' = orders
             /\ outbox' = outbox
             /\ resp' = Response(200, "OK")]_vars

\* orders are stored, a validly signed finished IPN named an id none of them
\* carries, and it was answered 200 OK
C18_Witness ==
    /\ ValidIpn(req)
    /\ SaysFinished(req.data)
    /\ "order_id" \in req.data.keys
    /\ ~env.dbFail
    /\ Len(orders) > 0
    /\ RowsOf(orders, req.data.order_id) = {}
    /\ \A i \in 1..Len(orders) : orders[i].order_status = "pending"
    /\ outbox = <<>>
    /\ resp = Response(200, "OK")

\* the step is a /create-order request answered 500 after the invoice request
\* was made
CreateOrderInvoiceFailed ==
    /\ req'.handler = "create_order"
    /\ env'.called
    /\ resp'.status = 500

\* C19: /create-order commits the order row before it requests the invoice:
\* when the request is answered 500 because of the invoice, the new order is
\* stored with status pending under the id the invoice was requested for, and
\* afterwards a pending order can be cancelled by its id and any stored order
\* can be marked paid by its id (when storage does not raise).
C19_OrderStoredDespiteInvoiceFailure ==
    [][/\ CreateOrderInvoiceFailed =>
            /\ Len(orders') = Len(orders) + 1
            /\ SubSeq(orders', 1, Len(orders)) = orders
            /\ orders'[Len(orders')].order_status = "pending"
            /\ orders'[Len(orders')].order_id = invoices'[Len(invoices')].order_id
       /\ \A o \in OrderIds :
            /\ (/\ req'.handler = "cancel_order" /\ req'.order_id = o
                /\ ~env'.dbFail /\ PendingRowsOf(orders, o) # {})
               => /\ resp' = Response(200, "success")
                  /\ \A i \in PendingRowsOf(orders, o) :
                        orders'[i].order_status = "cancelled"
            /\ FinishedIpnStep(o)
               => \A i \in RowsOf(orders, o) : orders'[i].order_status = "paid"]_vars

\* /create-order has just answered 500 although the processor was asked for an
\* invoice, and the order it stored is there, pending
C19_Witness ==
    /\ req.handler = "create_order"
    /\ env.called
    /\ InvoiceCallFailed(env.response)
    /\ resp.status = 500
    /\ Len(orders) > 0
    /\ orders[Len(orders)].order_status = "pending"
    /\ orders[Len(orders)].order_id = invoices[Len(invoices)].order_id
    /\ orders[Len(orders)].user_identifier = NULL

\* C20: a buyer's text message is relayed to the operator only if that buyer
\* has chosen a delivery method for an order before; while the buyer has no
\* stored method and order id the text causes no operator message and no
\* reply; a relayed message carries exactly the stored order id, the stored
\* method and the text of the message.
C20_RelayOnlyAfterChoice ==
    [][req'.handler = "receive_details" =>
          LET stored == user_data[req'.user] IN
          /\ operator' # operator =>
                /\ chosen[req'.user].method \in Methods
                /\ chosen[req'.user].order_id # NoOrderId
                /\ Len(operator') = Len(operator) + 1
                /\ SubSeq(operator', 1, Len(operator)) = operator
                /\ operator'[Len(operator')].order_id = stored.order_id
                /\ operator'[Len(operator')].method = stored.method
                /\ operator'[Len(operator')].details = req'.details
          /\ (stored.method = NULL \/ stored.order_id = NoOrderId) =>
                /\ operator' = operator
                /\ resp' = NoReply]_vars

\* a buyer's text was relayed with the buyer's stored choice and confirmed to
\* the buyer, while the other buyer has no stored choice
C20_Witness ==
    /\ req.handler = "receive_details"
    /\ resp.body = "Details submitted!"
    /\ Len(operator) = 1
    /\ operator[1] = OperatorMessage(user_data[req.user].order_id,
                                     user_data[req.user].method, req.details, TRUE)
    /\ \E u \in Users : user_data[u] = NoDelivery

====
